---------------------------- MODULE Spec2Model ----------------------------
(***************************************************************************)
(* A model of libugremote: the connection-profile store (UGConnProfile),   *)
(* the user-profile store with its session reconciler (UGUserProfile) and  *)
(* the SSH connection manager (UGConnection).                              *)
(*                                                                         *)
(* Python values are modelled as follows.  A dict is a function whose      *)
(* DOMAIN is its key set, so that a missing key is a key outside DOMAIN.   *)
(* A list is a sequence; Python indexes from 0, sequences from 1.  None is *)
(* the string None.  A raised exception is recorded in the result variable *)
(* of the component; every assignment made before the raise is kept, as    *)
(* in Python.                                                              *)
(***************************************************************************)
EXTENDS Integers, Sequences, FiniteSets, TLC

VARIABLES
    \* ---- UGConnProfile (one instance and the file it is saved to) ----
    cp_profile,     \* UGConnProfile._profile
    cp_file,        \* content of the file at file_path
    cp_saved,       \* the fields of _profile at the last save_profile that wrote cp_file
    cpCall,         \* the last call made on the instance
    cpResult,       \* "ok" or the exception the last call raised to its caller
    cpPrinted,      \* what the last call printed
    \* ---- UGUserProfile ----
    up_profile,     \* UGUserProfile._profile
    conn_profiles,  \* UGUserProfile._conn_profiles
    upCall,         \* the last call made on the instance, with the arguments that decide
                    \* whether it is rejected
    upResult,       \* "ok" or the exception the last call raised to its caller
    upReturned,     \* the value the last call returned to its caller, None for none
    upPrinted,      \* what the last call printed
    existing_paths, \* the paths of the local machine at which os.path.exists finds a file
    instantiated,   \* UGUserProfile.instantiated, the class attribute
    \* ---- UGConnection ----
    connected,      \* UGConnection.connected
    hostname,       \* UGConnection.hostname
    username,       \* UGConnection.username
    client,         \* the transports paramiko holds authenticated, oldest first
    key_file,       \* the private key file at KEY_FILENAME on the local machine
    connCall,       \* the last call made on the manager, with its arguments
    connResult,     \* "ok" or the exception the last call raised to its caller
    connPrinted,    \* what the last call printed
    trace           \* what the last call did on the transport and the disk, in order

cpVars   == <<cp_profile, cp_file, cp_saved, cpCall, cpResult, cpPrinted>>
upVars   == <<up_profile, conn_profiles, upCall, upResult, upReturned, upPrinted,
             existing_paths, instantiated>>
connVars == <<connected, hostname, username, client, key_file, connCall, connResult,
             connPrinted, trace>>
vars     == <<cpVars, upVars, connVars>>

None == "None"

(***************************************************************************)
(* Bounds of the model.                                                    *)
(***************************************************************************)
MaxServers  == 2   \* longest servers list built by appending
MaxPorts    == 2   \* longest forwarding_ports list built by appending
MaxSessions == 2   \* longest sessions list

RECURSIVE SeqsUpTo(_, _)
SeqsUpTo(S, n) ==
    IF n = 0 THEN {<<>>}
    ELSE LET shorter == SeqsUpTo(S, n - 1)
         IN  shorter \cup {Append(q, x) : q \in {r \in shorter : Len(r) = n - 1}, x \in S}

(***************************************************************************)
(* JSON.  A file is nofile (no file at the path), garbage (not JSON), a    *)
(* JSON array, a JSON number, or a JSON object, whose members are obj.     *)
(* json.dumps writes a Python list and a Python tuple alike as a JSON      *)
(* array; json.load reads a JSON array as a Python list.                   *)
(***************************************************************************)
NoMembers == [k \in {} |-> 0]

NoFile  == [kind |-> "nofile", obj |-> NoMembers]
Garbage == [kind |-> "garbage", obj |-> NoMembers]
JsonArray  == [kind |-> "array", obj |-> NoMembers]
JsonNumber == [kind |-> "number", obj |-> NoMembers]
JsonObject(members) == [kind |-> "object", obj |-> members]


(***************************************************************************)
(* UGConnProfile                                                           *)
(***************************************************************************)
UGConnProfile_version == 1

_empty_profile ==
    [version |-> UGConnProfile_version,
     servers |-> <<>>,
     start_vnc_srv |-> FALSE,
     forwarding_ports |-> <<>>]

\* A (local port, remote port) pair as the caller appends it: a Python tuple.
PortTuple(local, remote) == [kind |-> "tuple", items |-> <<local, remote>>]

\* json.dumps(self._profile): every list or tuple becomes a JSON array.
json_dumps(py) ==
    [k \in DOMAIN py |->
        IF k = "forwarding_ports"
        THEN [i \in DOMAIN py[k] |-> [kind |-> "array", items |-> py[k][i].items]]
        ELSE py[k]]

\* json.load(infile) of a JSON object: every JSON array becomes a list.
json_load(members) ==
    [k \in DOMAIN members |->
        IF k = "forwarding_ports"
        THEN [i \in DOMAIN members[k] |-> [kind |-> "list", items |-> members[k][i].items]]
        ELSE members[k]]

\* load_profile without "self._profile = json_data": the file is read and dropped.
UGConnProfile_load_outcome_drops_data(file) ==
    CASE file.kind \in {"nofile", "garbage", "number"} ->
            [profile |-> _empty_profile,
             printed |-> "Exception happens when trying to load profile. Using default profile. "]
      [] file.kind = "array" ->
            [profile |-> _empty_profile, printed |-> "Connection Profile version mismatch. "]
      [] OTHER ->
            IF \/ "version" \notin DOMAIN file.obj
               \/ file.obj["version"] # UGConnProfile_version
            THEN [profile |-> _empty_profile, printed |-> "Connection Profile version mismatch. "]
            ELSE [profile |-> _empty_profile, printed |-> ""]

\* load_profile without the reset of its first line: a version mismatch returns with
\* _profile as it was.
UGConnProfile_load_outcome_no_reset(file) ==
    CASE file.kind \in {"nofile", "garbage", "number"} ->
            [profile |-> _empty_profile,
             printed |-> "Exception happens when trying to load profile. Using default profile. "]
      [] file.kind = "array" ->
            [profile |-> cp_profile, printed |-> "Connection Profile version mismatch. "]
      [] OTHER ->
            IF \/ "version" \notin DOMAIN file.obj
               \/ file.obj["version"] # UGConnProfile_version
            THEN [profile |-> cp_profile, printed |-> "Connection Profile version mismatch. "]
            ELSE [profile |-> json_load(file.obj), printed |-> ""]

\* What load_profile leaves in _profile and prints, for the file it reads.
\* open() raises for a missing file, json.load for a file that is not JSON, and
\* ("version" not in json_data) raises TypeError for a JSON number: each is caught
\* by the except clause.  A JSON array has no member "version".
UGConnProfile_load_outcome(file) ==
    CASE file.kind \in {"nofile", "garbage", "number"} ->
            [profile |-> _empty_profile,
             printed |-> "Exception happens when trying to load profile. Using default profile. "]
      [] file.kind = "array" ->
            [profile |-> _empty_profile, printed |-> "Connection Profile version mismatch. "]
      [] OTHER ->
            IF \/ "version" \notin DOMAIN file.obj
               \/ file.obj["version"] # UGConnProfile_version
            THEN [profile |-> _empty_profile, printed |-> "Connection Profile version mismatch. "]
            ELSE [profile |-> json_load(file.obj), printed |-> ""]

\* The fields a connection profile is read by, when it has them all.
CPKeys == {"version", "servers", "start_vnc_srv", "forwarding_ports"}

CPFields(p) ==
    [servers |-> p["servers"],
     start_vnc_srv |-> p["start_vnc_srv"],
     forwarding_ports |-> [i \in DOMAIN p["forwarding_ports"] |-> p["forwarding_ports"][i].items]]

\* Inputs of the callers.
ServerNames == {"h1", "h2"}
PortPairs   == {PortTuple(2000, 1000), PortTuple(5901, 5901)}

\* Files put at file_path by something other than save_profile.
CPSampleMembers ==
    [version |-> UGConnProfile_version,
     servers |-> <<"h2", "h1">>,
     start_vnc_srv |-> TRUE,
     forwarding_ports |-> <<[kind |-> "array", items |-> <<2000, 1000>>]>>]

Without(members, key) == [k \in DOMAIN members \ {key} |-> members[k]]

CPForeignFiles ==
    {NoFile, Garbage, JsonArray, JsonNumber}
    \cup {JsonObject(CPSampleMembers),
          JsonObject([CPSampleMembers EXCEPT !["version"] = 2])}
    \cup {JsonObject(Without(CPSampleMembers, k)) : k \in CPKeys}

\* UGConnProfile(): a fresh instance.
UGConnProfile_init ==
    /\ cp_profile' = _empty_profile
    /\ cpCall' = [op |-> "__init__"]
    /\ cpResult' = "ok"
    /\ cpPrinted' = ""
    /\ UNCHANGED <<cp_file, cp_saved>>
    /\ UNCHANGED <<upVars, connVars>>

\* profile["servers"].append(server): __getitem__, then list.append.
UGConnProfile_append_server(server) ==
    /\ cpCall' = [op |-> "append_server", arg |-> server]
    /\ cpPrinted' = ""
    /\ IF "servers" \notin DOMAIN cp_profile
       THEN /\ cpResult' = "KeyError"
            /\ UNCHANGED cp_profile
       ELSE /\ Len(cp_profile["servers"]) < MaxServers
            /\ cp_profile' = [cp_profile EXCEPT !["servers"] = Append(@, server)]
            /\ cpResult' = "ok"
    /\ UNCHANGED <<cp_file, cp_saved>>
    /\ UNCHANGED <<upVars, connVars>>

\* profile["forwarding_ports"].append((local, remote)).
UGConnProfile_append_port(pair) ==
    /\ cpCall' = [op |-> "append_port", arg |-> pair]
    /\ cpPrinted' = ""
    /\ IF "forwarding_ports" \notin DOMAIN cp_profile
       THEN /\ cpResult' = "KeyError"
            /\ UNCHANGED cp_profile
       ELSE /\ Len(cp_profile["forwarding_ports"]) < MaxPorts
            /\ cp_profile' = [cp_profile EXCEPT !["forwarding_ports"] = Append(@, pair)]
            /\ cpResult' = "ok"
    /\ UNCHANGED <<cp_file, cp_saved>>
    /\ UNCHANGED <<upVars, connVars>>

\* profile["start_vnc_srv"] = value: __setitem__ adds the key when it is missing.
UGConnProfile_setitem_start_vnc_srv(value) ==
    /\ cpCall' = [op |-> "__setitem__", arg |-> value]
    /\ cpPrinted' = ""
    /\ cp_profile' = [k \in DOMAIN cp_profile \cup {"start_vnc_srv"} |->
                         IF k = "start_vnc_srv" THEN value ELSE cp_profile[k]]
    /\ cpResult' = "ok"
    /\ UNCHANGED <<cp_file, cp_saved>>
    /\ UNCHANGED <<upVars, connVars>>

UGConnProfile_load_profile ==
    /\ LET outcome == UGConnProfile_load_outcome(cp_file)
       IN  /\ cp_profile' = outcome.profile
           /\ cpPrinted' = outcome.printed
    /\ cpCall' = [op |-> "load_profile"]
    /\ cpResult' = "ok"
    /\ UNCHANGED <<cp_file, cp_saved>>
    /\ UNCHANGED <<upVars, connVars>>

\* save_profile: open(file_path, 'w') fails when the path is not writable, and the
\* exception is raised on; otherwise the file holds json.dumps(self._profile).
UGConnProfile_save_profile(writable) ==
    /\ cpCall' = [op |-> "save_profile"]
    /\ cpPrinted' = ""
    /\ IF writable
       THEN /\ cp_file' = JsonObject(json_dumps(cp_profile))
            /\ cp_saved' = IF CPKeys \subseteq DOMAIN cp_profile
                           THEN {CPFields(cp_profile)} ELSE {}
            /\ cpResult' = "ok"
       ELSE /\ cpResult' = "Exception"
            /\ UNCHANGED <<cp_file, cp_saved>>
    /\ UNCHANGED cp_profile
    /\ UNCHANGED <<upVars, connVars>>

\* The file at file_path is replaced, or removed, by something else.
CPFileReplaced(file) ==
    /\ cp_file' = file
    /\ cp_saved' = {}
    /\ cpCall' = [op |-> "file replaced"]
    /\ UNCHANGED <<cp_profile, cpResult, cpPrinted>>
    /\ UNCHANGED <<upVars, connVars>>

CPInit ==
    /\ cp_profile = _empty_profile
    /\ cp_file = NoFile
    /\ cp_saved = {}
    /\ cpCall = [op |-> "__init__"]
    /\ cpResult = "ok"
    /\ cpPrinted = ""

(***************************************************************************)
(* UGUserProfile                                                           *)
(***************************************************************************)
UGUserProfile_version == 1

_supported_viewers == {"TigerVNC", "RealVNC"}

_empty_session ==
    [name |-> "", conn_profile |-> "", last_server |-> "", username |-> "",
     private_key_path |-> "", vnc_passwd_path |-> ""]

_empty_user_profile ==
    [version |-> UGUserProfile_version, viewer |-> "TigerVNC",
     last_session |-> -1, sessions |-> <<>>]

\* x in list
InList(x, list) == \E i \in DOMAIN list : list[i] = x

\* The credential files present on the local machine when the instance is
\* constructed, and os.path.exists(path).
ExistingPaths == {"k1", "v1"}
os_path_exists(path) == path \in existing_paths

\* The connection profiles found in ../profile when the instance is constructed:
\* __init__ loads each <name>.json with UGConnProfile.load_profile.
ProfileDirectory ==
    [eecg |-> JsonObject([version |-> UGConnProfile_version,
                          servers |-> <<"s1", "s2">>,
                          start_vnc_srv |-> TRUE,
                          forwarding_ports |-> <<>>]),
     ecf  |-> JsonObject([version |-> UGConnProfile_version,
                          servers |-> <<"s3">>,
                          start_vnc_srv |-> FALSE,
                          forwarding_ports |-> <<[kind |-> "array", items |-> <<2000, 1000>>]>>])]

UGUserProfile_init_conn_profiles ==
    [file_name \in DOMAIN ProfileDirectory |->
        UGConnProfile_load_outcome(ProfileDirectory[file_name]).profile]

\* load_session with the test of vnc_passwd_path moved out of the branch of the
\* private key: the VNC password path is kept whenever its own file exists.
load_session_vnc_on_its_own(session, catalogs) ==
    IF \/ "name" \notin DOMAIN session
       \/ "conn_profile" \notin DOMAIN session
       \/ session["conn_profile"] \notin DOMAIN catalogs
       \/ "last_server" \notin DOMAIN session
       \/ "servers" \notin DOMAIN catalogs[session["conn_profile"]]
       \/ "username" \notin DOMAIN session
       \/ "private_key_path" \notin DOMAIN session
       \/ "vnc_passwd_path" \notin DOMAIN session
    THEN [raised |-> "KeyError", session |-> _empty_session]
    ELSE LET conn_profile == catalogs[session["conn_profile"]]
         IN  [raised |-> "",
              session |->
                [name |-> session["name"],
                 conn_profile |-> session["conn_profile"],
                 last_server |-> IF InList(session["last_server"], conn_profile["servers"])
                                 THEN session["last_server"] ELSE "",
                 username |-> session["username"],
                 private_key_path |-> IF os_path_exists(session["private_key_path"])
                                      THEN session["private_key_path"] ELSE "",
                 vnc_passwd_path |-> IF os_path_exists(session["vnc_passwd_path"])
                                     THEN session["vnc_passwd_path"] ELSE ""]]

\* load_session that copies last_server without looking it up in the servers of
\* the connection profile.
load_session_keeps_server(session, catalogs) ==
    IF \/ "name" \notin DOMAIN session
       \/ "conn_profile" \notin DOMAIN session
       \/ session["conn_profile"] \notin DOMAIN catalogs
       \/ "last_server" \notin DOMAIN session
       \/ "username" \notin DOMAIN session
       \/ "private_key_path" \notin DOMAIN session
       \/ /\ os_path_exists(session["private_key_path"])
          /\ "vnc_passwd_path" \notin DOMAIN session
    THEN [raised |-> "KeyError", session |-> _empty_session]
    ELSE LET keyKept == os_path_exists(session["private_key_path"])
         IN  [raised |-> "",
              session |->
                [name |-> session["name"],
                 conn_profile |-> session["conn_profile"],
                 last_server |-> session["last_server"],
                 username |-> session["username"],
                 private_key_path |-> IF keyKept THEN session["private_key_path"] ELSE "",
                 vnc_passwd_path |-> IF keyKept /\ os_path_exists(session["vnc_passwd_path"])
                                     THEN session["vnc_passwd_path"] ELSE ""]]

\* load_session(session): the reconciled session, or the KeyError of the first
\* subscript that fails (a missing key of the raw session, an unknown connection
\* profile, a connection profile without "servers").  vnc_passwd_path is read only
\* in the branch where the private key exists.
load_session(session, catalogs) ==
    IF \/ "name" \notin DOMAIN session
       \/ "conn_profile" \notin DOMAIN session
       \/ session["conn_profile"] \notin DOMAIN catalogs
       \/ "last_server" \notin DOMAIN session
       \/ "servers" \notin DOMAIN catalogs[session["conn_profile"]]
       \/ "username" \notin DOMAIN session
       \/ "private_key_path" \notin DOMAIN session
       \/ /\ os_path_exists(session["private_key_path"])
          /\ "vnc_passwd_path" \notin DOMAIN session
    THEN [raised |-> "KeyError", session |-> _empty_session]
    ELSE LET conn_profile == catalogs[session["conn_profile"]]
             keyKept == os_path_exists(session["private_key_path"])
         IN  [raised |-> "",
              session |->
                [name |-> session["name"],
                 conn_profile |-> session["conn_profile"],
                 last_server |-> IF InList(session["last_server"], conn_profile["servers"])
                                 THEN session["last_server"] ELSE "",
                 username |-> session["username"],
                 private_key_path |-> IF keyKept THEN session["private_key_path"] ELSE "",
                 vnc_passwd_path |-> IF keyKept /\ os_path_exists(session["vnc_passwd_path"])
                                     THEN session["vnc_passwd_path"] ELSE ""]]

\* The for loop of load_profile: profile after the sessions of raw are appended one
\* by one, until one raises.
RECURSIVE load_sessions(_, _, _)
load_sessions(raw, profile, catalogs) ==
    IF raw = <<>>
    THEN [raised |-> "", profile |-> profile]
    ELSE LET loaded == load_session(Head(raw), catalogs)
         IN  IF loaded.raised # ""
             THEN [raised |-> loaded.raised, profile |-> profile]
             ELSE load_sessions(Tail(raw),
                                [profile EXCEPT !.sessions = Append(@, loaded.session)],
                                catalogs)

\* The try block of load_profile: the exception it ends with ("" for none) and
\* self._profile at that point.
UGUserProfile_load_try(file, catalogs) ==
    LET p0 == _empty_user_profile
        json_data == file.obj
    IN  CASE file.kind = "nofile"  -> [raised |-> "FileNotFoundError", profile |-> p0]
          [] file.kind = "garbage" -> [raised |-> "JSONDecodeError", profile |-> p0]
          [] file.kind = "number"  -> [raised |-> "TypeError", profile |-> p0]
          [] file.kind = "array"   -> [raised |-> "ValueError", profile |-> p0]
          [] OTHER ->
             IF "version" \notin DOMAIN json_data \/ json_data["version"] # UGUserProfile_version
             THEN [raised |-> "ValueError", profile |-> p0]
             ELSE IF "viewer" \notin DOMAIN json_data
             THEN [raised |-> "KeyError", profile |-> p0]
             ELSE IF json_data["viewer"] \notin _supported_viewers
             THEN [raised |-> "ValueError", profile |-> p0]
             ELSE LET p1 == [p0 EXCEPT !.viewer = json_data["viewer"]]
                  IN  IF "last_session" \notin DOMAIN json_data
                      THEN [raised |-> "KeyError", profile |-> p1]
                      ELSE IF json_data["last_session"] < 0
                      THEN [raised |-> "ValueError", profile |-> p1]
                      ELSE IF "sessions" \notin DOMAIN json_data
                      THEN [raised |-> "KeyError", profile |-> p1]
                      ELSE IF json_data["last_session"] >= Len(json_data["sessions"])
                      THEN [raised |-> "ValueError", profile |-> p1]
                      ELSE load_sessions(json_data["sessions"],
                                         [p1 EXCEPT !.last_session = json_data["last_session"]],
                                         catalogs)

\* Inputs of the callers.
SessionNames    == {"A"}
ConnProfileArgs == {"eecg", "ecf", "UG"}
UsernameArgs    == {"alice"}
ServerArgs      == {"s2", "s3"}
KeyPathArgs     == {None, "k1"}
VncPathArgs     == {None, "v1"}
ViewerArgs      == {"TigerVNC", "RealVNC", "non-existing-viewer"}

\* User profile files found at file_path.  The raw sessions: one that
\* reconciliation keeps whole, one that it normalizes (server of another profile,
\* no private key on disk, a VNC password on disk), one of an unknown connection
\* profile, one without "username".
RawKept ==
    [name |-> "A", conn_profile |-> "eecg", last_server |-> "s2", username |-> "alice",
     private_key_path |-> "k1", vnc_passwd_path |-> "v1"]
RawNormalized ==
    [name |-> "A", conn_profile |-> "ecf", last_server |-> "s2", username |-> "alice",
     private_key_path |-> "kx", vnc_passwd_path |-> "v1"]
RawUnknownCatalog == [RawKept EXCEPT !.conn_profile = "UG"]
RawNoUsername == Without(RawKept, "username")

RawGood == {RawKept, RawNormalized}
RawBad  == {RawUnknownCatalog, RawNoUsername}

UPMembers(viewer, last_session, sessions) ==
    [version |-> UGUserProfile_version, viewer |-> viewer,
     last_session |-> last_session, sessions |-> sessions]

UPSampleMembers == UPMembers("RealVNC", 0, <<RawKept>>)

\* Session lists of a file: the lists of one or two sessions that load, and the
\* lists with one session that does not load, first or last.
RawSessionLists ==
    {<<>>}
    \cup {<<a>> : a \in RawGood \cup RawBad}
    \cup {<<a, b>> : a \in RawGood, b \in RawGood}
    \cup {<<a, RawKept>> : a \in RawBad}
    \cup {<<RawKept, b>> : b \in RawBad}

UPForeignFiles ==
    {NoFile, Garbage, JsonArray, JsonNumber}
    \cup {JsonObject(UPMembers("RealVNC", i, ss)) : ss \in RawSessionLists, i \in {0, 1}}
    \cup {JsonObject(UPMembers("RealVNC", -1, ss)) : ss \in {<<>>, <<RawKept>>}}
    \cup {JsonObject([UPSampleMembers EXCEPT !.version = 2]),
          JsonObject([UPSampleMembers EXCEPT !.viewer = "non-existing-viewer"]),
          JsonObject([UPSampleMembers EXCEPT !.viewer = "TigerVNC"]),
          JsonObject(NoMembers)}
    \cup {JsonObject(Without(UPSampleMembers, k)) : k \in DOMAIN UPSampleMembers}

\* load_profile whose except clause only prints: what the try block had assigned
\* when it raised is kept.
UGUserProfile_load_outcome_keeps_partial(file, catalogs) ==
    LET try == UGUserProfile_load_try(file, catalogs)
    IN  IF try.raised # ""
        THEN [profile |-> try.profile,
              printed |-> "Unable to load the user profile. Using the default profile instead."]
        ELSE [profile |-> try.profile, printed |-> "UGUserProfile loading..."]

\* load_profile: the except clause puts the default profile back.
UGUserProfile_load_outcome(file, catalogs) ==
    LET try == UGUserProfile_load_try(file, catalogs)
    IN  IF try.raised # ""
        THEN [profile |-> _empty_user_profile,
              printed |-> "Unable to load the user profile. Using the default profile instead."]
        ELSE [profile |-> try.profile, printed |-> "UGUserProfile loading..."]

UGUserProfile_load_profile(file) ==
    /\ instantiated
    /\ upCall' = [op |-> "load_profile", file |-> file]
    /\ LET outcome == UGUserProfile_load_outcome(file, conn_profiles)
       IN  /\ up_profile' = outcome.profile
           /\ upPrinted' = outcome.printed
    /\ upResult' = "ok"
    /\ upReturned' = None
    /\ UNCHANGED <<conn_profiles, existing_paths, instantiated>>
    /\ UNCHANGED <<cpVars, connVars>>

\* add_new_session with the append moved above the check of conn_profile.
UGUserProfile_add_new_session_appends_first(name, conn_profile) ==
    /\ instantiated
    /\ upCall' = [op |-> "add_new_session", name |-> name, conn_profile |-> conn_profile]
    /\ upPrinted' = ""
    /\ Len(up_profile.sessions) < MaxSessions
    /\ up_profile' =
         [up_profile EXCEPT !.sessions =
            Append(@, [_empty_session EXCEPT !.name = name,
                                            !.conn_profile = conn_profile])]
    /\ upResult' = IF conn_profile \notin DOMAIN conn_profiles THEN "ValueError" ELSE "ok"
    /\ upReturned' = None
    /\ UNCHANGED <<conn_profiles, existing_paths, instantiated>>
    /\ UNCHANGED <<cpVars, connVars>>

\* add_new_session that also selects the session it appends.
UGUserProfile_add_new_session_selects(name, conn_profile) ==
    /\ instantiated
    /\ upCall' = [op |-> "add_new_session", name |-> name, conn_profile |-> conn_profile]
    /\ upPrinted' = ""
    /\ IF conn_profile \notin DOMAIN conn_profiles
       THEN /\ upResult' = "ValueError"
            /\ UNCHANGED up_profile
       ELSE /\ Len(up_profile.sessions) < MaxSessions
            /\ up_profile' =
                 [up_profile EXCEPT !.last_session = Len(up_profile.sessions),
                                    !.sessions =
                    Append(@, [_empty_session EXCEPT !.name = name,
                                                    !.conn_profile = conn_profile])]
            /\ upResult' = "ok"
    /\ upReturned' = None
    /\ UNCHANGED <<conn_profiles, existing_paths, instantiated>>
    /\ UNCHANGED <<cpVars, connVars>>

UGUserProfile_add_new_session(name, conn_profile) ==
    /\ instantiated
    /\ upCall' = [op |-> "add_new_session", name |-> name, conn_profile |-> conn_profile]
    /\ upPrinted' = ""
    /\ IF conn_profile \notin DOMAIN conn_profiles
       THEN /\ upResult' = "ValueError"
            /\ UNCHANGED up_profile
       ELSE /\ Len(up_profile.sessions) < MaxSessions
            /\ up_profile' =
                 [up_profile EXCEPT !.sessions =
                    Append(@, [_empty_session EXCEPT !.name = name,
                                                    !.conn_profile = conn_profile])]
            /\ upResult' = "ok"
    /\ upReturned' = None
    /\ UNCHANGED <<conn_profiles, existing_paths, instantiated>>
    /\ UNCHANGED <<cpVars, connVars>>

\* modify_session with the assignment of last_session moved above the test of
\* session_idx.
UGUserProfile_modify_session_selects_first(session_idx, user, last_server, private_key_path, vnc_passwd_path) ==
    /\ instantiated
    /\ upCall' = [op |-> "modify_session", session_idx |-> session_idx]
    /\ upPrinted' = ""
    /\ IF session_idx < 0 \/ session_idx >= Len(up_profile.sessions)
       THEN /\ upResult' = "IndexError"
            /\ up_profile' = [up_profile EXCEPT !.last_session = session_idx]
       ELSE LET i == session_idx + 1
                selected == [up_profile EXCEPT !.last_session = session_idx,
                                               !.sessions[i].username = user]
                conn_profile == conn_profiles[up_profile.sessions[i].conn_profile]
            IN  IF ~InList(last_server, conn_profile["servers"])
                THEN /\ upResult' = "ValueError"
                     /\ up_profile' = selected
                ELSE /\ upResult' = "ok"
                     /\ up_profile' =
                          [selected EXCEPT
                             !.sessions[i].last_server = last_server,
                             !.sessions[i].private_key_path =
                                 IF private_key_path # None THEN private_key_path ELSE @,
                             !.sessions[i].vnc_passwd_path =
                                 IF vnc_passwd_path # None THEN vnc_passwd_path ELSE @]
    /\ upReturned' = None
    /\ UNCHANGED <<conn_profiles, existing_paths, instantiated>>
    /\ UNCHANGED <<cpVars, connVars>>

\* session_idx counts from 0; private_key_path and vnc_passwd_path are None when the
\* caller leaves them out.
UGUserProfile_modify_session(session_idx, user, last_server, private_key_path, vnc_passwd_path) ==
    /\ instantiated
    /\ upCall' = [op |-> "modify_session", session_idx |-> session_idx]
    /\ upPrinted' = ""
    /\ IF session_idx < 0 \/ session_idx >= Len(up_profile.sessions)
       THEN /\ upResult' = "IndexError"
            /\ UNCHANGED up_profile
       ELSE LET i == session_idx + 1
                selected == [up_profile EXCEPT !.last_session = session_idx,
                                               !.sessions[i].username = user]
                conn_profile == conn_profiles[up_profile.sessions[i].conn_profile]
            IN  IF "servers" \notin DOMAIN conn_profile
                THEN /\ upResult' = "KeyError"
                     /\ up_profile' = selected
                ELSE IF ~InList(last_server, conn_profile["servers"])
                THEN /\ upResult' = "ValueError"
                     /\ up_profile' = selected
                ELSE /\ upResult' = "ok"
                     /\ up_profile' =
                          [selected EXCEPT
                             !.sessions[i].last_server = last_server,
                             !.sessions[i].private_key_path =
                                 IF private_key_path # None THEN private_key_path ELSE @,
                             !.sessions[i].vnc_passwd_path =
                                 IF vnc_passwd_path # None THEN vnc_passwd_path ELSE @]
    /\ upReturned' = None
    /\ UNCHANGED <<conn_profiles, existing_paths, instantiated>>
    /\ UNCHANGED <<cpVars, connVars>>

UGUserProfile_change_viewer(viewer) ==
    /\ instantiated
    /\ upCall' = [op |-> "change_viewer", viewer |-> viewer]
    /\ upPrinted' = ""
    /\ IF viewer \notin _supported_viewers
       THEN /\ upResult' = "NotImplementedError"
            /\ UNCHANGED up_profile
       ELSE /\ upResult' = "ok"
            /\ up_profile' = [up_profile EXCEPT !.viewer = viewer]
    /\ upReturned' = None
    /\ UNCHANGED <<conn_profiles, existing_paths, instantiated>>
    /\ UNCHANGED <<cpVars, connVars>>

\* save_profile that writes the profile without its sessions.
UGUserProfile_save_profile_without_sessions(writable) ==
    /\ instantiated
    /\ upPrinted' = ""
    /\ IF writable
       THEN /\ upCall' = [op |-> "save_profile",
                          written |-> JsonObject(json_dumps([up_profile EXCEPT !.sessions = <<>>]))]
            /\ upResult' = "ok"
       ELSE /\ upCall' = [op |-> "save_profile", written |-> NoFile]
            /\ upResult' = "Exception"
    /\ upReturned' = None
    /\ UNCHANGED <<up_profile, conn_profiles, existing_paths, instantiated>>
    /\ UNCHANGED <<cpVars, connVars>>

\* save_profile: written is what the file at file_path holds afterwards.
UGUserProfile_save_profile(writable) ==
    /\ instantiated
    /\ upPrinted' = ""
    /\ IF writable
       THEN /\ upCall' = [op |-> "save_profile", written |-> JsonObject(json_dumps(up_profile))]
            /\ upResult' = "ok"
       ELSE /\ upCall' = [op |-> "save_profile", written |-> NoFile]
            /\ upResult' = "Exception"
    /\ upReturned' = None
    /\ UNCHANGED <<up_profile, conn_profiles, existing_paths, instantiated>>
    /\ UNCHANGED <<cpVars, connVars>>

\* The dict query_sessions builds for one session.  UGConnProfile.__getitem__
\* raises KeyError for a key its profile does not hold.
queried_session(session, catalogs) ==
    LET conn_profile == catalogs[session.conn_profile]
    IN  IF "servers" \notin DOMAIN conn_profile \/ "vnc_manual" \notin DOMAIN conn_profile
        THEN [raised |-> "KeyError", view |-> None]
        ELSE [raised |-> "",
              view |-> [name |-> session.name,
                        servers |-> conn_profile["servers"],
                        last_server |-> session.last_server,
                        username |-> session.username,
                        passwd |-> (session.private_key_path # ""),
                        vnc_manual |-> conn_profile["vnc_manual"],
                        vnc_passwd |-> (session.vnc_passwd_path # "")]]

\* query_sessions: the list of the dicts of all sessions, or the first exception.
UGUserProfile_query_sessions ==
    /\ instantiated
    /\ upCall' = [op |-> "query_sessions"]
    /\ upPrinted' = ""
    /\ LET sessions == up_profile.sessions
           queried == [i \in DOMAIN sessions |-> queried_session(sessions[i], conn_profiles)]
       IN  IF \E i \in DOMAIN sessions : queried[i].raised # ""
           THEN /\ upResult' = "KeyError"
                /\ upReturned' = None
           ELSE /\ upResult' = "ok"
                /\ upReturned' = [i \in DOMAIN sessions |-> queried[i].view]
    /\ UNCHANGED <<up_profile, conn_profiles, existing_paths, instantiated>>
    /\ UNCHANGED <<cpVars, connVars>>

\* load_profile right after a save_profile that succeeded: file_path holds what that
\* call wrote.
UGUserProfile_load_saved_profile ==
    /\ upCall.op = "save_profile"
    /\ upResult = "ok"
    /\ UGUserProfile_load_profile(upCall.written)

\* __new__ without its test of the class attribute.
UGUserProfile_new_rejects_never == FALSE

\* __new__, lines 105-106: whether the construction is refused.
UGUserProfile_new_rejects == instantiated

\* UGUserProfile(): __new__, then __init__ on the new object.  os.listdir raises when
\* ../profile cannot be read, and the exception leaves __init__ before the class
\* attribute is set.  The model follows the first instance constructed.
UGUserProfile_new(listdir_ok) ==
    /\ upCall' = [op |-> "__init__"]
    /\ upPrinted' = ""
    /\ IF UGUserProfile_new_rejects
       THEN /\ upResult' = "ValueError"
            /\ upReturned' = None
            /\ UNCHANGED <<up_profile, conn_profiles, instantiated>>
       ELSE IF ~listdir_ok
       THEN /\ upResult' = "FileNotFoundError"
            /\ upReturned' = None
            /\ UNCHANGED <<up_profile, conn_profiles, instantiated>>
       ELSE /\ upResult' = "ok"
            /\ upReturned' = "new instance"
            /\ up_profile' = _empty_user_profile
            /\ conn_profiles' = UGUserProfile_init_conn_profiles
            /\ instantiated' = TRUE
    /\ UNCHANGED existing_paths
    /\ UNCHANGED <<cpVars, connVars>>

\* The process before any UGUserProfile is constructed: the class is defined and
\* there is no instance.
UGUserProfile_class_defined ==
    /\ up_profile = None
    /\ conn_profiles = None
    /\ upCall = [op |-> "import"]
    /\ upResult = "ok"
    /\ upReturned = None
    /\ upPrinted = ""
    /\ existing_paths = ExistingPaths
    /\ instantiated = FALSE

UPInit ==
    /\ up_profile = _empty_user_profile
    /\ conn_profiles = UGUserProfile_init_conn_profiles
    /\ upCall = [op |-> "__init__"]
    /\ upResult = "ok"
    /\ upReturned = None
    /\ upPrinted = ""
    /\ existing_paths = ExistingPaths
    /\ instantiated = TRUE

\* ---- load_session on its own: every raw session, every state of the disk ----
\* The raw sessions load_session is given: each credential path empty or the path
\* of a file that may exist, the server of one connection profile or the other,
\* and the raw sessions that do not load.
ReconcileInputs ==
    {[name |-> "A", conn_profile |-> c, last_server |-> srv, username |-> "alice",
      private_key_path |-> k, vnc_passwd_path |-> v] :
        c \in {"eecg", "ecf"}, srv \in {"", "s2", "s3"}, k \in {"", "k1"}, v \in {"", "v1"}}
    \cup RawBad
    \cup {Without(RawKept, "vnc_passwd_path")}

\* load_session(session), called by load_profile for each session of the file.
UGUserProfile_load_session ==
    /\ instantiated
    /\ upCall.op = "load_session"
    /\ upResult = "pending"
    /\ LET loaded == load_session(upCall.session, conn_profiles)
       IN  IF loaded.raised # ""
           THEN /\ upResult' = loaded.raised
                /\ upReturned' = None
           ELSE /\ upResult' = "ok"
                /\ upReturned' = loaded.session
    /\ UNCHANGED <<up_profile, conn_profiles, upCall, upPrinted, existing_paths, instantiated>>
    /\ UNCHANGED <<cpVars, connVars>>

\* A constructed instance about to reconcile one raw session, on any disk.
ReconcileInit ==
    /\ up_profile = _empty_user_profile
    /\ conn_profiles = UGUserProfile_init_conn_profiles
    /\ upCall \in {[op |-> "load_session", session |-> session] : session \in ReconcileInputs}
    /\ upResult = "pending"
    /\ upReturned = None
    /\ upPrinted = ""
    /\ existing_paths \in SUBSET ExistingPaths
    /\ instantiated = TRUE

(***************************************************************************)
(* UGConnection                                                            *)
(***************************************************************************)
\* Inputs of the callers.  invalid_host is a name that does not resolve; good is
\* the password of every user; id_rsa is KEY_FILENAME.
HostArgs   == {"h1", "h2", "invalid_host"}
UserArgs   == {"u1", "u2"}
PasswdArgs == {None, "good", "1234"}
KeyArgs    == {None, "id_rsa"}
ExitStatuses == {0, 1}

Endpoint(host, user) == [hostname |-> host, username |-> user]

\* What happened on the transport or the disk, and how it ended.
Event(what, outcome) == [what |-> what, outcome |-> outcome]
Did(what) == \E i \in DOMAIN trace : trace[i].what = what

\* paramiko's SSHClient.connect(hostname, username, password | key_filename): the
\* name is resolved, then the credential is tried; the network may fail at any
\* time.  A key logs in when the file holds a key the endpoint trusts.
TransportOutcomes(host, user, passwd, key_filename) ==
    IF host = "invalid_host" THEN {"gaierror"}
    ELSE {"SSHException"} \cup
         (IF passwd # None
          THEN (IF passwd = "good" THEN {"ok"} ELSE {"AuthenticationException"})
          ELSE IF ~key_file.exists THEN {"FileNotFoundError"}
          ELSE IF Endpoint(host, user) \in key_file.trusted_by THEN {"ok"}
          ELSE {"AuthenticationException"})

\* connect without the reuse test: every call reconnects.
UGConnection_reuses_never(host, user) == FALSE

\* connect, lines 72-80: whether the live connection is reused.
UGConnection_reuses(host, user) ==
    connected /\ host = hostname /\ user = username

\* connect with "else" in place of "elif key_filename is not None": no ValueError.
UGConnection_credential_no_check(passwd, key_filename) ==
    IF passwd # None THEN "password" ELSE "key_filename"

\* connect, lines 89-99: the credential the call logs in with.
UGConnection_credential(passwd, key_filename) ==
    IF passwd # None THEN "password"
    ELSE IF key_filename # None THEN "key_filename"
    ELSE "ValueError"

\* disconnect that closes the client and forgets to reset hostname and username.
UGConnection_disconnected_keeps_names ==
    [client |-> <<>>, hostname |-> hostname, username |-> username, connected |-> FALSE,
     trace |-> <<Event("close", "ok")>>]

\* disconnect that resets the fields and does not close the client.
UGConnection_disconnected_keeps_client ==
    [client |-> client, hostname |-> None, username |-> None, connected |-> FALSE,
     trace |-> <<>>]

\* disconnect: self.client.close(), then the fields are reset.
UGConnection_disconnected ==
    [client |-> <<>>, hostname |-> None, username |-> None, connected |-> FALSE,
     trace |-> <<Event("close", "ok")>>]

\* connect without the self.disconnect() of line 83.
UGConnection_not_torn_down ==
    [client |-> client, hostname |-> hostname, username |-> username,
     connected |-> connected, trace |-> <<>>]

\* connect, line 83: self.disconnect() before the try block.
UGConnection_torn_down == UGConnection_disconnected

UGConnection_connect(host, user, passwd, key_filename, outcome) ==
    /\ connCall' = [op |-> "connect", hostname |-> host, username |-> user,
                    passwd |-> passwd, key_filename |-> key_filename]
    /\ IF UGConnection_reuses(host, user)
       THEN /\ connPrinted' = "Connection already established on"
            /\ connResult' = "ok"
            /\ trace' = <<>>
            /\ UNCHANGED <<connected, hostname, username, client>>
       ELSE LET torn == UGConnection_torn_down
            IN  /\ connPrinted' = IF connected
                                  THEN "Hostname or credential mismatch. Disconnect that connection. "
                                  ELSE ""
                /\ IF UGConnection_credential(passwd, key_filename) = "ValueError"
                   THEN /\ connResult' = "ValueError"
                        /\ trace' = torn.trace
                        /\ client' = torn.client
                        /\ hostname' = torn.hostname
                        /\ username' = torn.username
                        /\ connected' = torn.connected
                   ELSE /\ outcome \in TransportOutcomes(
                               host, user,
                               IF UGConnection_credential(passwd, key_filename) = "password"
                               THEN passwd ELSE None,
                               key_filename)
                        /\ trace' = Append(torn.trace, Event("authenticate", outcome))
                        /\ connResult' = outcome
                        /\ IF outcome = "ok"
                           THEN /\ client' = Append(torn.client, Endpoint(host, user))
                                /\ hostname' = host
                                /\ username' = user
                                /\ connected' = TRUE
                           ELSE /\ client' = torn.client
                                /\ hostname' = torn.hostname
                                /\ username' = torn.username
                                /\ connected' = torn.connected
    /\ UNCHANGED key_file
    /\ UNCHANGED <<cpVars, upVars>>

UGConnection_disconnect ==
    /\ connCall' = [op |-> "disconnect"]
    /\ client' = UGConnection_disconnected.client
    /\ hostname' = UGConnection_disconnected.hostname
    /\ username' = UGConnection_disconnected.username
    /\ connected' = UGConnection_disconnected.connected
    /\ trace' = UGConnection_disconnected.trace
    /\ connResult' = "ok"
    /\ connPrinted' = ""
    /\ UNCHANGED key_file
    /\ UNCHANGED <<cpVars, upVars>>

\* self.client.exec_command(command): paramiko raises when no transport is open.
UGConnection_exec_command ==
    /\ connCall' = [op |-> "exec_command"]
    /\ IF client = <<>>
       THEN /\ connResult' = "SSHException"
            /\ trace' = <<Event("exec", "SSHException")>>
       ELSE /\ connResult' = "ok"
            /\ trace' = <<Event("exec", "ok")>>
    /\ connPrinted' = ""
    /\ UNCHANGED <<connected, hostname, username, client, key_file>>
    /\ UNCHANGED <<cpVars, upVars>>

UGConnection_exec_command_blocking(exit_status) ==
    /\ IF client = <<>>
       THEN /\ connCall' = [op |-> "exec_command_blocking", exit_status |-> -1]
            /\ connResult' = "SSHException"
            /\ trace' = <<Event("exec", "SSHException")>>
       ELSE /\ connCall' = [op |-> "exec_command_blocking", exit_status |-> exit_status]
            /\ connResult' = "ok"
            /\ trace' = <<Event("exec", "ok")>>
    /\ connPrinted' = ""
    /\ UNCHANGED <<connected, hostname, username, client, key_file>>
    /\ UNCHANGED <<cpVars, upVars>>

\* save_keys with the test of connected moved below the call of ssh_keygen.
UGConnection_save_keys_checks_late(exit_status) ==
    /\ connCall' = [op |-> "save_keys", exit_status |-> exit_status]
    /\ connPrinted' = ""
    /\ IF ~connected
       THEN /\ connResult' = "PermissionError"
            /\ trace' = <<Event("write_private_key_file", "ok")>>
            /\ key_file' = [exists |-> TRUE, trusted_by |-> {}]
       ELSE IF client = <<>>
       THEN /\ connResult' = "SSHException"
            /\ trace' = <<Event("write_private_key_file", "ok"), Event("exec", "SSHException")>>
            /\ key_file' = [exists |-> TRUE, trusted_by |-> {}]
       ELSE /\ trace' = <<Event("write_private_key_file", "ok"), Event("exec", "ok")>>
            /\ IF exit_status # 0
               THEN /\ connResult' = "SystemError"
                    /\ key_file' = [exists |-> TRUE, trusted_by |-> {}]
               ELSE /\ connResult' = "ok"
                    /\ key_file' = [exists |-> TRUE, trusted_by |-> {client[Len(client)]}]
    /\ UNCHANGED <<connected, hostname, username, client>>
    /\ UNCHANGED <<cpVars, upVars>>

\* save_keys that puts the key file back as it was when the remote command fails.
UGConnection_save_keys_rolls_back(exit_status) ==
    /\ connCall' = [op |-> "save_keys", exit_status |-> exit_status]
    /\ connPrinted' = ""
    /\ IF ~connected
       THEN /\ connResult' = "PermissionError"
            /\ trace' = <<>>
            /\ UNCHANGED key_file
       ELSE IF client = <<>>
       THEN /\ connResult' = "SSHException"
            /\ trace' = <<Event("write_private_key_file", "ok"), Event("exec", "SSHException")>>
            /\ key_file' = [exists |-> TRUE, trusted_by |-> {}]
       ELSE /\ trace' = <<Event("write_private_key_file", "ok"), Event("exec", "ok")>>
            /\ IF exit_status # 0
               THEN /\ connResult' = "SystemError"
                    /\ UNCHANGED key_file
               ELSE /\ connResult' = "ok"
                    /\ key_file' = [exists |-> TRUE, trusted_by |-> {client[Len(client)]}]
    /\ UNCHANGED <<connected, hostname, username, client>>
    /\ UNCHANGED <<cpVars, upVars>>

\* save_keys(KEY_FILENAME): ssh_keygen writes a new private key, which no endpoint
\* trusts yet; the remote command appends its public key to authorized_keys of the
\* endpoint the transport is on, and exits with exit_status.
UGConnection_save_keys(exit_status) ==
    /\ connCall' = [op |-> "save_keys", exit_status |-> exit_status]
    /\ connPrinted' = ""
    /\ IF ~connected
       THEN /\ connResult' = "PermissionError"
            /\ trace' = <<>>
            /\ UNCHANGED key_file
       ELSE IF client = <<>>
       THEN /\ connResult' = "SSHException"
            /\ trace' = <<Event("write_private_key_file", "ok"), Event("exec", "SSHException")>>
            /\ key_file' = [exists |-> TRUE, trusted_by |-> {}]
       ELSE /\ trace' = <<Event("write_private_key_file", "ok"), Event("exec", "ok")>>
            /\ IF exit_status # 0
               THEN /\ connResult' = "SystemError"
                    /\ key_file' = [exists |-> TRUE, trusted_by |-> {}]
               ELSE /\ connResult' = "ok"
                    /\ key_file' = [exists |-> TRUE, trusted_by |-> {client[Len(client)]}]
    /\ UNCHANGED <<connected, hostname, username, client>>
    /\ UNCHANGED <<cpVars, upVars>>

ConnInit ==
    /\ connected = FALSE
    /\ hostname = None
    /\ username = None
    /\ client = <<>>
    /\ key_file = [exists |-> FALSE, trusted_by |-> {}]
    /\ connCall = [op |-> "__init__"]
    /\ connResult = "ok"
    /\ connPrinted = ""
    /\ trace = <<>>

(***************************************************************************)
(* Specifications: one per component, the other components at rest.        *)
(***************************************************************************)
Init == CPInit /\ UPInit /\ ConnInit

CPNext ==
    \/ UGConnProfile_init
    \/ \E server \in ServerNames : UGConnProfile_append_server(server)
    \/ \E pair \in PortPairs : UGConnProfile_append_port(pair)
    \/ \E value \in BOOLEAN : UGConnProfile_setitem_start_vnc_srv(value)
    \/ UGConnProfile_load_profile
    \/ \E writable \in BOOLEAN : UGConnProfile_save_profile(writable)
    \/ \E file \in CPForeignFiles : CPFileReplaced(file)

UPNext ==
    \/ \E listdir_ok \in BOOLEAN : UGUserProfile_new(listdir_ok)
    \/ \E file \in UPForeignFiles : UGUserProfile_load_profile(file)
    \/ UGUserProfile_load_saved_profile
    \/ \E name \in SessionNames, conn_profile \in ConnProfileArgs :
          UGUserProfile_add_new_session(name, conn_profile)
    \/ \E session_idx \in -1 .. MaxSessions, user \in UsernameArgs,
          last_server \in ServerArgs, private_key_path \in KeyPathArgs,
          vnc_passwd_path \in VncPathArgs :
          UGUserProfile_modify_session(session_idx, user, last_server,
                                       private_key_path, vnc_passwd_path)
    \/ \E viewer \in ViewerArgs : UGUserProfile_change_viewer(viewer)
    \/ \E writable \in BOOLEAN : UGUserProfile_save_profile(writable)
    \/ UGUserProfile_query_sessions

ConnNext ==
    \/ \E host \in HostArgs, user \in UserArgs, passwd \in PasswdArgs, key_filename \in KeyArgs,
          outcome \in {"ok", "AuthenticationException", "gaierror", "FileNotFoundError",
                       "SSHException"} :
          UGConnection_connect(host, user, passwd, key_filename, outcome)
    \/ UGConnection_disconnect
    \/ UGConnection_exec_command
    \/ \E exit_status \in ExitStatuses : UGConnection_exec_command_blocking(exit_status)
    \/ \E exit_status \in ExitStatuses : UGConnection_save_keys(exit_status)

SpecCP == Init /\ [][CPNext]_vars
SpecConn == Init /\ [][ConnNext]_vars
SpecUP == Init /\ [][UPNext]_vars

\* The user profile from the start of the process, before its construction.
SingletonInit == CPInit /\ UGUserProfile_class_defined /\ ConnInit
SpecSingleton == SingletonInit /\ [][UPNext]_vars

ReconcileNext == UGUserProfile_load_session
ReconcileSpecInit == CPInit /\ ReconcileInit /\ ConnInit
SpecReconcile == ReconcileSpecInit /\ [][ReconcileNext]_vars

(***************************************************************************)
(* Properties.  A property of one call relates the state before it to the  *)
(* state after it, and is written as a property of every step: the primed  *)
(* call variable tells which call the step is.                             *)
(***************************************************************************)

\* The position in sessions of the session the last modify_session call named.
ModifiedPos == upCall.session_idx + 1

\* C1: a modify_session call rejected with a validation error (last_server is not
\* in the servers of the session's connection profile) leaves sessions[session_idx]
\* equal, field for field, to what it was before the call.
C1_RejectedModifyKeepsSession ==
    [][(upCall'.op = "modify_session" /\ upResult' = "ValueError")
        => up_profile'.sessions[ModifiedPos'] = up_profile.sessions[ModifiedPos']]_vars

\* C2: every mutating call rejected with a validation error (add_new_session,
\* modify_session, change_viewer) leaves the whole profile unchanged: viewer,
\* last_session and sessions.
C2_RejectedCallKeepsProfile ==
    [][(/\ upCall'.op \in {"add_new_session", "modify_session", "change_viewer"}
        /\ upResult' \in {"ValueError", "IndexError", "NotImplementedError"})
        => up_profile' = up_profile]_vars

\* C3: add_new_session with a conn_profile that is no key of _conn_profiles raises
\* ValueError and leaves the length of sessions unchanged.
C3_UnknownCatalogRejected ==
    [][(upCall'.op = "add_new_session" /\ upCall'.conn_profile \notin DOMAIN conn_profiles)
        => /\ upResult' = "ValueError"
           /\ Len(up_profile'.sessions) = Len(up_profile.sessions)]_vars

C3_Witness ==
    /\ upCall.op = "add_new_session"
    /\ upCall.conn_profile \notin DOMAIN conn_profiles
    /\ upResult = "ValueError"
    /\ Len(up_profile.sessions) > 0

\* C4: connect called while connected, with the hostname and username of the live
\* connection, is a no-op whatever passwd and key_filename are: nothing is done on
\* the transport (no authentication, no close) and connected, hostname, username and
\* the transport stay as they were.
C4_ReuseIsNoOp ==
    [][(/\ connCall'.op = "connect"
        /\ connected
        /\ connCall'.hostname = hostname
        /\ connCall'.username = username)
        => /\ trace' = <<>>
           /\ connResult' = "ok"
           /\ UNCHANGED <<connected, hostname, username, client>>]_vars

C4_Witness ==
    /\ connCall.op = "connect"
    /\ connected
    /\ connPrinted = "Connection already established on"
    /\ connCall.passwd = "1234"
    /\ trace = <<>>

\* C5, as claimed: in every state of the manager, connect with neither passwd nor
\* key_filename raises ValueError, makes no authentication attempt and leaves the
\* manager disconnected.
C5_NoCredentialAlwaysRejected ==
    (connCall.op = "connect" /\ connCall.passwd = None /\ connCall.key_filename = None)
        => /\ connResult = "ValueError"
           /\ ~Did("authenticate")
           /\ ~connected

\* C5, amended: when the manager is disconnected, or connected to another hostname
\* or username, connect with neither passwd nor key_filename raises ValueError,
\* makes no authentication attempt and leaves the manager disconnected.  (Connected
\* to the same hostname and username, the call is the reuse no-op of C4.)
C5_NoCredentialRejectedUnlessReused ==
    [][(/\ connCall'.op = "connect"
        /\ connCall'.passwd = None
        /\ connCall'.key_filename = None
        /\ ~(connected /\ connCall'.hostname = hostname /\ connCall'.username = username))
        => /\ connResult' = "ValueError"
           /\ ~Did("authenticate")'
           /\ ~connected'
           /\ hostname' = None
           /\ username' = None]_vars

C5_Witness ==
    /\ connCall.op = "connect"
    /\ connCall.passwd = None
    /\ connCall.key_filename = None
    /\ connResult = "ValueError"
    /\ connPrinted = "Hostname or credential mismatch. Disconnect that connection. "

\* C6: a connect call that ends in an error raises that error to the caller (the
\* transport's own error, or ValueError) and leaves the manager disconnected, with
\* hostname and username unset, whatever state it was called in.
C6_FailedConnectDisconnects ==
    (connCall.op = "connect" /\ connResult # "ok")
        => /\ ~connected
           /\ hostname = None
           /\ username = None
           /\ client = <<>>
           /\ \/ connResult = "ValueError" /\ ~Did("authenticate")
              \/ trace[Len(trace)] = Event("authenticate", connResult)

C6_Witness ==
    /\ connCall.op = "connect"
    /\ connResult = "AuthenticationException"
    /\ connPrinted = "Hostname or credential mismatch. Disconnect that connection. "

\* C7: in every reachable state, connected implies that hostname and username are
\* set and are those of the one transport the client holds authenticated (the most
\* recent successful authentication); not connected implies that both are unset;
\* and the client never holds more than one authenticated transport.
C7_ConnectionInvariant ==
    /\ Len(client) <= 1
    /\ connected => /\ hostname # None
                    /\ username # None
                    /\ client = <<Endpoint(hostname, username)>>
    /\ ~connected => hostname = None /\ username = None

C7_Witness ==
    /\ connected
    /\ connCall.op = "save_keys"
    /\ connResult = "SystemError"
    /\ hostname = "h2"

\* C8: after load_profile reads a file that save_profile wrote from a profile with
\* all its fields, servers, start_vnc_srv and forwarding_ports are those saved, in
\* the same order (a port pair is compared by its two ports).
C8_SaveLoadRoundTrip ==
    (cpCall.op = "load_profile" /\ cp_saved # {})
        => /\ CPKeys \subseteq DOMAIN cp_profile
           /\ CPFields(cp_profile) \in cp_saved

C8_Witness ==
    /\ cpCall.op = "load_profile"
    /\ cp_saved # {}
    /\ cp_profile["servers"] = <<"h1", "h2">>
    /\ cp_profile["start_vnc_srv"] = TRUE
    /\ Len(cp_profile["forwarding_ports"]) = 2
    /\ cp_profile["forwarding_ports"][1].items # cp_profile["forwarding_ports"][2].items

\* The file is JSON with no version member, or with one that is not the supported
\* version.
VersionRejected(file, supported) ==
    \/ file.kind \in {"array", "number"}
    \/ /\ file.kind = "object"
       /\ \/ "version" \notin DOMAIN file.obj
          \/ file.obj["version"] # supported

\* C9: load_profile of a file whose version is absent or not the supported one
\* leaves the default profile, whatever else the file holds and whatever the
\* instance held, and raises nothing.
C9_VersionMismatchLoadsDefault ==
    (cpCall.op = "load_profile" /\ VersionRejected(cp_file, UGConnProfile_version))
        => /\ cp_profile = _empty_profile
           /\ cpResult = "ok"

C9_Witness ==
    /\ cpCall.op = "load_profile"
    /\ cp_file.kind = "object"
    /\ "version" \in DOMAIN cp_file.obj
    /\ cp_file.obj["version"] # UGConnProfile_version
    /\ cp_file.obj["servers"] # <<>>
    /\ cp_profile = _empty_profile

\* The file is a JSON object of the supported version that lacks one of keys.
LacksField(file, supported, keys) ==
    /\ file.kind = "object"
    /\ "version" \in DOMAIN file.obj
    /\ file.obj["version"] = supported
    /\ ~(keys \subseteq DOMAIN file.obj)

\* C10: for both stores, load_profile of a file of the supported version that lacks
\* a required field leaves the default profile and raises nothing, and no later
\* access to a field of the store fails with KeyError.
C10_MissingFieldLoadsDefault ==
    /\ (cpCall.op = "load_profile" /\ LacksField(cp_file, UGConnProfile_version, CPKeys))
          => cp_profile = _empty_profile /\ cpResult = "ok"
    /\ cpResult # "KeyError"
    /\ (upCall.op = "load_profile"
        /\ LacksField(upCall.file, UGUserProfile_version, DOMAIN _empty_user_profile))
          => up_profile = _empty_user_profile /\ upResult = "ok"

\* The file is a user profile with all its members.
UPWellFormed(file) ==
    /\ file.kind = "object"
    /\ DOMAIN _empty_user_profile \subseteq DOMAIN file.obj

\* The reconciled image of every session of the file, in file order.
ReconciledSessions(file, catalogs) ==
    [i \in DOMAIN file.obj["sessions"] |-> load_session(file.obj["sessions"][i], catalogs).session]

\* One of the steps of load_profile fails on the file: version mismatch, unsupported
\* viewer, last_session outside 0 .. len(sessions) - 1, or a session, at any
\* position, of an unknown connection profile.
UPLoadStepFails(file, catalogs) ==
    /\ UPWellFormed(file)
    /\ \/ file.obj["version"] # UGUserProfile_version
       \/ file.obj["viewer"] \notin _supported_viewers
       \/ file.obj["last_session"] \notin 0 .. Len(file.obj["sessions"]) - 1
       \/ \E i \in DOMAIN file.obj["sessions"] :
             /\ "conn_profile" \in DOMAIN file.obj["sessions"][i]
             /\ file.obj["sessions"][i]["conn_profile"] \notin DOMAIN catalogs

\* C11: load_profile is all-or-nothing.  After every load_profile call nothing was
\* raised, and the profile is either exactly the default or holds the viewer of the
\* file, its last_session and the reconciled image of every session of the file in
\* file order; when a step fails (version, viewer, last_session, or a session of an
\* unknown connection profile at any position) the profile is exactly the default.
C11_LoadAllOrNothing ==
    upCall.op = "load_profile"
        => /\ upResult = "ok"
           /\ \/ up_profile = _empty_user_profile
              \/ /\ UPWellFormed(upCall.file)
                 /\ up_profile.version = UGUserProfile_version
                 /\ up_profile.viewer = upCall.file.obj["viewer"]
                 /\ up_profile.last_session = upCall.file.obj["last_session"]
                 /\ up_profile.sessions = ReconciledSessions(upCall.file, conn_profiles)
           /\ UPLoadStepFails(upCall.file, conn_profiles) => up_profile = _empty_user_profile

\* A load that failed at its second session, after the viewer, last_session and
\* the first session of the file had been assigned.
C11_Witness ==
    /\ upCall.op = "load_profile"
    /\ upCall.file = JsonObject(UPMembers("RealVNC", 0, <<RawKept, RawUnknownCatalog>>))
    /\ up_profile = _empty_user_profile
    /\ upPrinted = "Unable to load the user profile. Using the default profile instead."

\* C12: for every raw session and every state of the disk, load_session returns a
\* session whose vnc_passwd_path is non-empty only if its private_key_path is: when
\* the raw private_key_path does not exist it is returned empty and so is
\* vnc_passwd_path, even if the raw vnc_passwd_path exists; when it exists it is
\* kept, and vnc_passwd_path is kept exactly when its own path exists.
C12_VncPathNeedsKeyPath ==
    (upCall.op = "load_session" /\ upResult = "ok")
        => LET raw == upCall.session
           IN  /\ upReturned.vnc_passwd_path # "" => upReturned.private_key_path # ""
               /\ raw.private_key_path \notin existing_paths
                     => /\ upReturned.private_key_path = ""
                        /\ upReturned.vnc_passwd_path = ""
               /\ raw.private_key_path \in existing_paths
                     => /\ upReturned.private_key_path = raw.private_key_path
                        /\ upReturned.vnc_passwd_path =
                              IF raw.vnc_passwd_path \in existing_paths
                              THEN raw.vnc_passwd_path ELSE ""

\* The private key is not on disk, the VNC password is, and both come back empty.
C12_Witness ==
    /\ upCall.op = "load_session"
    /\ upResult = "ok"
    /\ upCall.session = RawKept
    /\ existing_paths = {"v1"}
    /\ upReturned.private_key_path = ""
    /\ upReturned.vnc_passwd_path = ""

\* Every credential path of the profile that is not empty is the path of a file.
CredentialPathsExist ==
    \A i \in DOMAIN up_profile.sessions :
        /\ up_profile.sessions[i].private_key_path \in existing_paths \cup {""}
        /\ up_profile.sessions[i].vnc_passwd_path \in existing_paths \cup {""}

\* The step is a load_profile of the file that the save_profile just before it wrote.
LoadsWhatWasSaved ==
    /\ upCall.op = "save_profile"
    /\ upResult = "ok"
    /\ upCall'.op = "load_profile"
    /\ upCall'.file = upCall.written
    /\ UNCHANGED <<conn_profiles, existing_paths, instantiated>>

\* C13, as claimed: in every state reachable by add_new_session, modify_session and
\* change_viewer calls, with every non-empty credential path on disk, save_profile
\* followed by load_profile of the same path restores the same viewer, the same
\* last_session and an equal sessions list.
C13_SaveLoadRoundTrip ==
    [][(LoadsWhatWasSaved /\ CredentialPathsExist) => up_profile' = up_profile]_vars

\* C13, amended: the same, for the states in which a session is selected
\* (last_session >= 0) and no session has a vnc_passwd_path without a
\* private_key_path.  (With last_session = -1 load_profile rejects the file it is
\* given and leaves the default profile; a vnc_passwd_path without private_key_path
\* is read back empty.)
C13_SaveLoadRoundTripOnceSelected ==
    [][(/\ LoadsWhatWasSaved
        /\ CredentialPathsExist
        /\ up_profile.last_session >= 0
        /\ \A i \in DOMAIN up_profile.sessions :
              up_profile.sessions[i].vnc_passwd_path # ""
                  => up_profile.sessions[i].private_key_path # "")
        => up_profile' = up_profile]_vars

\* Two sessions, the second selected and on a server that no file put at the path
\* by something else names, read back from the file save_profile wrote.
C13_Witness ==
    /\ upCall.op = "load_profile"
    /\ upResult = "ok"
    /\ Len(up_profile.sessions) = 2
    /\ up_profile.last_session = 1
    /\ up_profile.sessions[1].private_key_path = "k1"
    /\ up_profile.sessions[1].vnc_passwd_path = "v1"
    /\ up_profile.sessions[2].conn_profile = "ecf"
    /\ up_profile.sessions[2].last_server = "s3"

\* last_session is -1 or the position of a session; -1 when there is no session.
LastSessionInRange ==
    /\ up_profile.last_session \in -1 .. Len(up_profile.sessions) - 1
    /\ up_profile.sessions = <<>> => up_profile.last_session = -1

\* A successful modify_session selects a session, and a step from a state with a
\* session selected to a state with sessions leaves one selected.
StaysSelected ==
    /\ (upCall'.op = "modify_session" /\ upResult' = "ok")
          => up_profile'.last_session >= 0
    /\ (up_profile.last_session >= 0 /\ up_profile'.sessions # <<>>)
          => up_profile'.last_session >= 0

\* C14: in every state reached by load_profile, add_new_session, modify_session and
\* change_viewer calls, accepted or rejected, -1 <= last_session < len(sessions)
\* when sessions is not empty and last_session = -1 when it is; and once a
\* modify_session call has succeeded last_session >= 0, and it stays so for as long
\* as sessions is not empty.
C14_LastSessionInRange ==
    /\ []LastSessionInRange
    /\ [][StaysSelected]_vars

\* A session added after another one was modified: the first stays selected.
C14_Witness ==
    /\ upCall.op = "add_new_session"
    /\ upResult = "ok"
    /\ Len(up_profile.sessions) = 2
    /\ up_profile.last_session = 0
    /\ up_profile.sessions[1].last_server = "s3"

\* A construction attempted after one has completed is refused, returns nothing and
\* leaves the instance and the class attribute as they were.
LaterConstructionRefused ==
    (upCall'.op = "__init__" /\ instantiated)
        => /\ upResult' = "ValueError"
           /\ upReturned' = None
           /\ instantiated'
           /\ UNCHANGED <<up_profile, conn_profiles>>

\* C15: after one construction of UGUserProfile has completed, every later
\* construction attempt in the process raises ValueError, and the first instance
\* and its state are neither returned nor replaced nor modified by the attempt.
C15_SecondConstructionRefused ==
    [][LaterConstructionRefused /\ (instantiated => instantiated')]_vars

\* A construction refused while the first instance holds two sessions.
C15_Witness ==
    /\ upCall.op = "__init__"
    /\ upResult = "ValueError"
    /\ instantiated
    /\ Len(up_profile.sessions) = 2
    /\ up_profile.last_session = 1

\* C16: save_keys called while the manager is disconnected (never connected, after
\* disconnect, after a failed connect) raises PermissionError before anything else
\* happens: no key pair is generated, the file at key_filename is as it was, and no
\* command is sent to the remote.
C16_SaveKeysNeedsConnection ==
    [][(connCall'.op = "save_keys" /\ ~connected)
        => /\ connResult' = "PermissionError"
           /\ trace' = <<>>
           /\ UNCHANGED <<key_file, connected, hostname, username, client>>]_vars

\* save_keys refused after a disconnect, with the key of an earlier save_keys still
\* on disk and trusted by the endpoint it was saved to.
C16_Witness ==
    /\ connCall.op = "save_keys"
    /\ connResult = "PermissionError"
    /\ ~connected
    /\ key_file.exists
    /\ key_file.trusted_by # {}
    /\ trace = <<>>

\* The view of a session: its name, last_server and username, the servers and the
\* start_vnc_srv flag of its connection profile, and whether each credential path
\* is set; the paths themselves are no field of the view.
SessionView(session, catalogs) ==
    [name |-> session.name,
     servers |-> catalogs[session.conn_profile]["servers"],
     last_server |-> session.last_server,
     username |-> session.username,
     passwd |-> (session.private_key_path # ""),
     vnc_manual |-> catalogs[session.conn_profile]["start_vnc_srv"],
     vnc_passwd |-> (session.vnc_passwd_path # "")]

\* C17: in every state reached by load_profile, add_new_session and modify_session
\* over connection profiles loaded from well-formed files, query_sessions succeeds
\* and returns one view per session, in the order of sessions, each with the
\* session's name, last_server and username, the servers and the start_vnc_srv flag
\* of its connection profile and the two presence flags, and never the raw
\* credential paths; the call changes nothing in the profile.
C17_QuerySessionsViews ==
    [][upCall'.op = "query_sessions"
        => /\ upResult' = "ok"
           /\ upReturned' = [i \in DOMAIN up_profile.sessions |->
                                SessionView(up_profile.sessions[i], conn_profiles)]
           /\ UNCHANGED <<up_profile, conn_profiles>>]_vars

\* After a disconnect call: no error, the transport closed, connected false and
\* hostname and username unset.
DisconnectedAfterDisconnect ==
    connCall.op = "disconnect"
        => /\ connResult = "ok"
           /\ Did("close")
           /\ client = <<>>
           /\ ~connected
           /\ hostname = None
           /\ username = None

\* A disconnect call that follows a disconnect call changes nothing.
DisconnectTwiceIsOnce ==
    (connCall.op = "disconnect" /\ connCall'.op = "disconnect")
        => UNCHANGED <<connected, hostname, username, client, key_file, connResult, trace>>

\* C18: disconnect is total and idempotent: from every state of the manager it
\* closes the transport and ends, without error, with connected false and hostname
\* and username unset, and any further disconnect call gives the same state, without
\* error.
C18_DisconnectIdempotent ==
    /\ []DisconnectedAfterDisconnect
    /\ [][DisconnectTwiceIsOnce]_vars

\* A disconnect of a manager that had connected and saved a key.
C18_Witness ==
    /\ connCall.op = "disconnect"
    /\ connResult = "ok"
    /\ ~connected
    /\ client = <<>>
    /\ key_file.trusted_by = {Endpoint("h2", "u2")}

\* C19: in every state reached by load_profile, add_new_session and modify_session
\* calls, accepted or rejected, every session names a connection profile that is a
\* key of _conn_profiles, and its last_server is the empty string or one of the
\* servers of that connection profile.
C19_SessionsReferToCatalogs ==
    \A i \in DOMAIN up_profile.sessions :
        LET session == up_profile.sessions[i]
        IN  /\ session.conn_profile \in DOMAIN conn_profiles
            /\ \/ session.last_server = ""
               \/ InList(session.last_server, conn_profiles[session.conn_profile]["servers"])

\* A session read from a file that names a server of another connection profile:
\* last_server is normalized to the empty string.
C19_Witness ==
    /\ upCall.op = "load_profile"
    /\ upCall.file = JsonObject(UPMembers("RealVNC", 1, <<RawKept, RawNormalized>>))
    /\ Len(up_profile.sessions) = 2
    /\ up_profile.sessions[2].conn_profile = "ecf"
    /\ up_profile.sessions[2].last_server = ""
    /\ up_profile.sessions[1].last_server = "s2"

\* C20: a modify_session(session_idx, ...) call sets last_session to session_idx
\* exactly when it succeeds: after a call that succeeded last_session = session_idx,
\* and a call that failed (session_idx out of range, or last_server not in the
\* servers of the connection profile) leaves last_session as it was.
C20_SelectsExactlyOnSuccess ==
    [][upCall'.op = "modify_session"
        => IF upResult' = "ok"
           THEN up_profile'.last_session = upCall'.session_idx
           ELSE up_profile'.last_session = up_profile.last_session]_vars

\* C21: a successful add_new_session(name, conn_profile) appends exactly one session
\* at the end of sessions, with the given name and conn_profile and with
\* last_server, username, private_key_path and vnc_passwd_path empty, and leaves
\* last_session, viewer, _conn_profiles and every earlier session unchanged.
C21_AddAppendsOneEmptySession ==
    [][(upCall'.op = "add_new_session" /\ upResult' = "ok")
        => LET before == up_profile.sessions
               after == up_profile'.sessions
           IN  /\ Len(after) = Len(before) + 1
               /\ SubSeq(after, 1, Len(before)) = before
               /\ after[Len(after)] =
                     [name |-> upCall'.name, conn_profile |-> upCall'.conn_profile,
                      last_server |-> "", username |-> "",
                      private_key_path |-> "", vnc_passwd_path |-> ""]
               /\ up_profile'.last_session = up_profile.last_session
               /\ up_profile'.viewer = up_profile.viewer
               /\ up_profile'.version = up_profile.version
               /\ UNCHANGED conn_profiles]_vars

\* A session of ecf appended behind a session of eecg that is modified and selected,
\* under a viewer that is not the default one.
C21_Witness ==
    /\ upCall.op = "add_new_session"
    /\ upResult = "ok"
    /\ upCall.conn_profile = "ecf"
    /\ up_profile.viewer = "RealVNC"
    /\ up_profile.last_session = 0
    /\ Len(up_profile.sessions) = 2
    /\ up_profile.sessions[1].username = "alice"
    /\ up_profile.sessions[1].private_key_path = "k1"
    /\ up_profile.sessions[2].conn_profile = "ecf"
    /\ up_profile.sessions[2].username = ""

\* The step is a connect call made while connected to another hostname or username.
ConnectsElsewhere ==
    /\ connCall'.op = "connect"
    /\ connected
    /\ ~(connCall'.hostname = hostname /\ connCall'.username = username)

\* C22: connect called while connected to another hostname or username closes the
\* existing connection before it attempts the new authentication, so that the old
\* and the new transport are never live together; when the new authentication fails
\* the manager ends disconnected, and the earlier connection is not restored.
C22_TornDownBeforeReconnect ==
    [][ConnectsElsewhere
        => /\ trace' # <<>>
           /\ trace'[1] = Event("close", "ok")
           /\ \A i \in DOMAIN trace' : trace'[i].what = "authenticate" => i > 1
           /\ Endpoint(hostname, username) \notin {client'[i] : i \in DOMAIN client'}
           /\ Len(client') <= 1
           /\ connResult' = "ok"
                 => /\ connected'
                    /\ client' = <<Endpoint(connCall'.hostname, connCall'.username)>>
           /\ connResult' # "ok"
                 => /\ ~connected'
                    /\ client' = <<>>
                    /\ hostname' = None
                    /\ username' = None]_vars

\* A connect to a name that does not resolve, made while connected elsewhere: the
\* earlier connection is closed and the manager is left disconnected.
C22_Witness ==
    /\ connCall.op = "connect"
    /\ connCall.hostname = "invalid_host"
    /\ connPrinted = "Hostname or credential mismatch. Disconnect that connection. "
    /\ connResult = "gaierror"
    /\ trace = <<Event("close", "ok"), Event("authenticate", "gaierror")>>
    /\ ~connected
    /\ client = <<>>

\* C23: save_keys on a connected manager writes the new private key at key_filename
\* first and only then runs the blocking remote command that appends the public key;
\* it raises SystemError exactly when the exit status of that command is not 0, and
\* then the private key it wrote stays on disk (no rollback) and connected, hostname
\* and username are unchanged.
C23_KeyWrittenBeforeRemoteAppend ==
    [][(connCall'.op = "save_keys" /\ connected)
        => /\ trace' = <<Event("write_private_key_file", "ok"), Event("exec", "ok")>>
           /\ connResult' = "SystemError" <=> connCall'.exit_status # 0
           /\ connResult' = "SystemError"
                 => /\ key_file' = [exists |-> TRUE, trusted_by |-> {}]
                    /\ UNCHANGED <<connected, hostname, username, client>>]_vars

\* save_keys failed on its remote command after an earlier save_keys had succeeded:
\* the key on disk is the new one, which the endpoint does not trust.
C23_Witness ==
    /\ connCall.op = "save_keys"
    /\ connCall.exit_status = 1
    /\ connResult = "SystemError"
    /\ connected
    /\ hostname = "h1"
    /\ key_file = [exists |-> TRUE, trusted_by |-> {}]
    /\ trace = <<Event("write_private_key_file", "ok"), Event("exec", "ok")>>
=============================================================================
